---- MODULE Spec2Model ----
(***************************************************************************)
(* Per-block operation processing of the beacon chain (package blocks):    *)
(* ETH1 data votes, randao, proposer slashings, attester slashings,        *)
(* attestations, deposits and voluntary exits, as functions from (beacon   *)
(* state, block, verifySignatures) to a new state or an error.  The beacon state is a Go pointer: what a stage  *)
(* writes through it is visible to the caller even when the stage returns  *)
(* (nil, err).  The variable `state` is the object the caller's pointer    *)
(* refers to.                                                              *)
(***************************************************************************)
EXTENDS Integers, Sequences, FiniteSets, TLC

VARIABLES state, pre, block, verifySignatures, stage, ret, log, pc, prev, calls,
          blockOperationsBucket, savedExits, dbCall

\* the caller of the stages, and the store of exits of package db
stageVars == <<state, pre, block, verifySignatures, stage, ret, log, pc, prev, calls>>
dbVars == <<blockOperationsBucket, savedExits, dbCall>>

vars == <<stageVars, dbVars>>

(***************************************************************************)
(* Bounds of the model.                                                    *)
(***************************************************************************)
\* largest value of the unsigned integer type (uint64 in the code); all
\* arithmetic on slots wraps modulo MaxUint + 1
MaxUint == 255
\* number of validators in the registry
NumValidators == 3
\* number of shards in latest_crosslinks
ShardCount == 2
\* number of bytes of a hash (32 in the code)
HashLen == 2
\* longest operation list whose items are chosen freely
MaxOps == 2
\* longest validator_indices list of a slashable attestation in a block
MaxIdxLen == 2
\* longest sequence of calls of the ETH1 data and randao stages on one state
MaxCalls == 3

(***************************************************************************)
(* Configuration, params.BeaconConfig().  The limits on the operation      *)
(* lists and the ring of block roots are scaled down.                      *)
(***************************************************************************)
EpochLength == 64
MinAttestationInclusionDelay == 4
MaxProposerSlashings == 2
MaxAttesterSlashings == 2
MaxAttestations == 2
MaxExits == 2
MaxIndicesPerSlashableVote == 2
LatestBlockRootsLength == 128
EntryExitDelay == 4
LatestRandaoMixesLength == 4
MaxDeposits == 2
DepositContractTreeDepth == 2

Modulus == MaxUint + 1
FarFutureEpoch == MaxUint

\* uint64 addition and multiplication
UAdd(a, b) == (a + b) % Modulus
UMul(a, b) == (a * b) % Modulus

(***************************************************************************)
(* Byte slices are sequences of bytes; a hash has HashLen bytes.  A nil     *)
(* slice and a slice of length 0 are both <<>>.                            *)
(***************************************************************************)
EmptyBytes == <<>>
ZeroHash == [i \in 1..HashLen |-> 0]
RootA == [i \in 1..HashLen |-> IF i = 1 THEN 1 ELSE 0]
RootB == [i \in 1..HashLen |-> IF i = HashLen THEN 1 ELSE 0]

\* bytes.Equal
BytesEqual(a, b) == a = b

\* bytesutil.ToBytes32: the array of HashLen bytes that copy() fills from the
\* slice; a shorter slice is padded with zeros, a longer one is cut
ToBytes32(x) == [i \in 1..HashLen |-> IF i <= Len(x) THEN x[i] ELSE 0]

\* the ^ operator on two bytes
RECURSIVE XorByte(_, _)
XorByte(a, b) ==
    IF a = 0 THEN b
    ELSE IF b = 0 THEN a
    ELSE ((a + b) % 2) + 2 * XorByte(a \div 2, b \div 2)

\* hashutil.Hash, a stand-in: the digest has HashLen bytes, each 0 or 1, and
\* they are the binary digits of a checksum of the data and its length
RECURSIVE Checksum(_, _)
Checksum(data, n) ==
    IF n = 0 THEN Len(data) + HashLen - 1
    ELSE data[n] * (2 ^ ((n - 1) % HashLen)) + Checksum(data, n - 1)

Hash(data) ==
    [i \in 1..HashLen |-> (Checksum(data, Len(data)) \div (2 ^ (i - 1))) % 2]

\* hashutil.RepeatHash on an array of HashLen bytes
RECURSIVE RepeatHash(_, _)
RepeatHash(data, numTimes) ==
    IF numTimes = 0 THEN data ELSE RepeatHash(Hash(data), numTimes - 1)

(***************************************************************************)
(* Helpers of package helpers.                                             *)
(***************************************************************************)
SlotToEpoch(slot) == slot \div EpochLength
CurrentEpoch(st) == SlotToEpoch(st.slot)
StartSlot(epoch) == UMul(epoch, EpochLength)
EntryExitEffectEpoch(epoch) == UAdd(UAdd(epoch, 1), EntryExitDelay)

(***************************************************************************)
(* Results of a stage.  kind is "ok" (state, nil), "err" (nil, error) or   *)
(* "panic" (index out of range); idx is the index of the failing item.     *)
(***************************************************************************)
NoItem == 0 - 1
RetOk == [kind |-> "ok", code |-> "nil", idx |-> NoItem]
RetErr(code, idx) == [kind |-> "err", code |-> code, idx |-> idx]
RetPanic(idx) == [kind |-> "panic", code |-> "index out of range", idx |-> idx]

\* what a stage leaves behind: the object behind the caller's pointer, the
\* returned result, and the calls made to the registry helpers
Outcome(st, r, lg) == [st |-> st, ret |-> r, log |-> lg]

InRange(index, seq) == index >= 0 /\ index < Len(seq)

(***************************************************************************)
(* Registry mutations of package validators.  They write through the       *)
(* state pointer and return it.                                            *)
(***************************************************************************)
\* a penalize_validator that leaves penalized_epoch as it was
penalizeKeepingEpoch(st, index) == st

PenalizeValidator(st, index) ==
    [st EXCEPT !.validator_registry[index + 1].penalized_epoch = CurrentEpoch(st)]

InitiateValidatorExit(st, index) ==
    [st EXCEPT !.validator_registry[index + 1].initiated_exit = TRUE]

(***************************************************************************)
(* ETH1 data votes.                                                        *)
(***************************************************************************)
\* a comparison of the two pointers, which no tally of the state shares with
\* a block
SamePointer(a, b) == FALSE

\* proto.Equal on two Eth1Data messages
ProtoEqual(a, b) == a = b

\* a scan that finds no tally
noMatchingVote(votes, eth1Data) == 0

\* the index of the first tally the loop over Eth1DataVotes stops at, or 0
firstMatchingVote(votes, eth1Data) ==
    LET matching == {idx \in 1..Len(votes) : ProtoEqual(votes[idx].eth1_data, eth1Data)}
    IN  IF matching = {} THEN 0
        ELSE CHOOSE idx \in matching : \A other \in matching : idx <= other

Eth1DataVote(eth1Data, voteCount) == [eth1_data |-> eth1Data, vote_count |-> voteCount]

ProcessEth1Data(st, blk) ==
    LET votes == st.eth1_data_votes
        idx == firstMatchingVote(votes, blk.eth1_data)
        eth1DataVoteAdded == idx # 0
    IN  IF eth1DataVoteAdded
        THEN Outcome([st EXCEPT !.eth1_data_votes[idx].vote_count =
                                    UAdd(votes[idx].vote_count, 1)], RetOk, <<>>)
        ELSE Outcome([st EXCEPT !.eth1_data_votes =
                                    Append(votes, Eth1DataVote(blk.eth1_data, 1))], RetOk, <<>>)

(***************************************************************************)
(* Randao.                                                                 *)
(***************************************************************************)
\* validators.BeaconProposerIdx: the proposer of a slot is taken in turn from
\* the validators active in the current epoch; the lookup fails when there
\* is none.  The result is [err, index].
BeaconProposerIdx(st, slot) ==
    LET IsActive(i) == st.validator_registry[i + 1].exit_epoch > CurrentEpoch(st)
        committee == SelectSeq([i \in 1..Len(st.validator_registry) |-> i - 1], IsActive)
    IN  IF Len(committee) = 0
        THEN [err |-> "empty committee", index |-> 0]
        ELSE [err |-> "nil", index |-> committee[(slot % Len(committee)) + 1]]

verifyBlockRandao(proposer, blk) ==
    LET blockRandaoReveal == ToBytes32(blk.randao_reveal)
        proposerRandaoCommit == ToBytes32(proposer.randao_commitment)
        randaoHashLayers == RepeatHash(blockRandaoReveal, proposer.randao_layers)
    IN  IF randaoHashLayers # proposerRandaoCommit
        THEN "expected hashed block randao layers to equal proposer randao"
        ELSE "nil"

\* a ring index that skips to the following entry
nextMixIndex(st) == (st.slot + 1) % LatestRandaoMixesLength

\* the index into the ring of randao mixes
latestMixIndex(st) == st.slot % LatestRandaoMixesLength

\* a mix that takes the bytes of the reveal instead of XORing them in
overwriteMix(latestMix, reveal) ==
    [i \in 1..HashLen |-> IF i <= Len(reveal) THEN reveal[i] ELSE latestMix[i]]

\* the loop latestMix[i] ^= x over the bytes of the reveal (which must fit
\* into the array)
xorMix(latestMix, reveal) ==
    [i \in 1..HashLen |->
        IF i <= Len(reveal) THEN XorByte(latestMix[i], reveal[i]) ELSE latestMix[i]]

\* a proposer whose commitment is replaced and whose layers are kept
proposerKeepingLayers(proposer, blk) ==
    [proposer EXCEPT !.randao_commitment = blk.randao_reveal]

\* the two writes to the proposer's randao fields
revealedProposer(proposer, blk) ==
    [proposer EXCEPT !.randao_commitment = blk.randao_reveal, !.randao_layers = 0]

ProcessBlockRandao(st, blk) ==
    LET lookup == BeaconProposerIdx(st, st.slot)
        proposerIndex == lookup.index
        registry == st.validator_registry
        proposer == registry[proposerIndex + 1]
        err == verifyBlockRandao(proposer, blk)
        mixIndex == latestMixIndex(st)
        latestMixSlice == st.latest_randao_mixes[mixIndex + 1]
        latestMix == xorMix(ToBytes32(latestMixSlice), blk.randao_reveal)
    IN  IF lookup.err # "nil"
        THEN Outcome(st, RetErr("could not fetch beacon proposer index", NoItem), <<>>)
        ELSE IF ~InRange(proposerIndex, registry) THEN Outcome(st, RetPanic(NoItem), <<>>)
        ELSE IF err # "nil"
            THEN Outcome(st, RetErr("could not verify block randao", NoItem), <<>>)
        ELSE IF ~InRange(mixIndex, st.latest_randao_mixes)
            THEN Outcome(st, RetPanic(NoItem), <<>>)
        ELSE IF Len(blk.randao_reveal) > HashLen THEN Outcome(st, RetPanic(NoItem), <<>>)
        ELSE Outcome([st EXCEPT
                        !.validator_registry[proposerIndex + 1] = revealedProposer(proposer, blk),
                        !.latest_randao_mixes[mixIndex + 1] = latestMix],
                     RetOk, <<>>)

(***************************************************************************)
(* Proposer slashings.                                                     *)
(***************************************************************************)
verifyProposerSlashing(slashing, verify) ==
    LET slot1 == slashing.proposal_data_1.slot
        slot2 == slashing.proposal_data_2.slot
        shard1 == slashing.proposal_data_1.shard
        shard2 == slashing.proposal_data_2.shard
        root1 == slashing.proposal_data_1.block_root
        root2 == slashing.proposal_data_2.block_root
    IN  IF slot1 # slot2 THEN "slots do not match"
        ELSE IF shard1 # shard2 THEN "shards do not match"
        ELSE IF ~BytesEqual(root1, root2) THEN "block roots do not match"
        ELSE IF verify THEN "nil"
        ELSE "nil"

\* a loop body that penalizes the proposer of every verified slashing
proposerAlwaysPenalized(st, proposer) == TRUE

\* the condition under which the loop body penalizes the proposer
proposerNotYetPenalized(st, proposer) ==
    proposer.penalized_epoch > CurrentEpoch(st)

\* body of the loop over body.ProposerSlashings; item is the 0-based index.
\* registry is the slice read before the loop: its elements are pointers to
\* the validators the helpers write to, so it is read from the current object
ProposerSlashingStep(acc, slashing, item, verify) ==
    LET err == verifyProposerSlashing(slashing, verify)
        registry == acc.st.validator_registry
    IN  IF err # "nil" THEN Outcome(acc.st, RetErr(err, item), acc.log)
        ELSE IF ~InRange(slashing.proposer_index, registry)
            THEN Outcome(acc.st, RetPanic(item), acc.log)
        ELSE IF proposerNotYetPenalized(acc.st, registry[slashing.proposer_index + 1])
            THEN Outcome(PenalizeValidator(acc.st, slashing.proposer_index), RetOk,
                         Append(acc.log, [op |-> "penalize", item |-> item,
                                          index |-> slashing.proposer_index]))
        ELSE acc

RECURSIVE ProposerSlashingsLoop(_, _, _, _)
ProposerSlashingsLoop(acc, slashings, k, verify) ==
    IF k > Len(slashings) THEN acc
    ELSE LET nxt == ProposerSlashingStep(acc, slashings[k], k - 1, verify)
         IN  IF nxt.ret.kind # "ok" THEN nxt
             ELSE ProposerSlashingsLoop(nxt, slashings, k + 1, verify)

ProcessProposerSlashings(st, blk, verify) ==
    IF Len(blk.body.proposer_slashings) > MaxProposerSlashings
    THEN Outcome(st, RetErr("number of proposer slashings exceeds threshold", NoItem), <<>>)
    ELSE ProposerSlashingsLoop(Outcome(st, RetOk, <<>>),
                               blk.body.proposer_slashings, 1, verify)

(***************************************************************************)
(* Attester slashings.                                                     *)
(***************************************************************************)
\* reflect.DeepEqual on the two attestation data
DeepEqual(data1, data2) == data1 = data2

\* mathutil.CeilDiv8
CeilDiv8(n) == (n + 7) \div 8

isDoubleVote(data1, data2) ==
    SlotToEpoch(data1.slot) = SlotToEpoch(data2.slot)

\* a surround check that also takes equal source epochs
isSurroundVoteEqualSource(data1, data2) ==
    data1.justified_epoch <= data2.justified_epoch
        /\ SlotToEpoch(data2.slot) < SlotToEpoch(data1.slot)

\* a surround check that takes the two attestations in either order
isSurroundVoteEitherOrder(data1, data2) ==
    \/ (data1.justified_epoch < data2.justified_epoch
            /\ SlotToEpoch(data2.slot) < SlotToEpoch(data1.slot))
    \/ (data2.justified_epoch < data1.justified_epoch
            /\ SlotToEpoch(data1.slot) < SlotToEpoch(data2.slot))

isSurroundVote(data1, data2) ==
    LET sourceEpoch1 == data1.justified_epoch
        sourceEpoch2 == data2.justified_epoch
        targetEpoch1 == SlotToEpoch(data1.slot)
        targetEpoch2 == SlotToEpoch(data2.slot)
    IN  sourceEpoch1 < sourceEpoch2 /\ targetEpoch2 < targetEpoch1

\* a scan that lets equal neighbours pass
indicesDecreasing(indices) ==
    \E i \in 1..(Len(indices) - 1) : indices[i] > indices[i + 1]

\* the loop over the adjacent pairs of ValidatorIndices
indicesOutOfOrder(indices) ==
    \E i \in 1..(Len(indices) - 1) : indices[i] >= indices[i + 1]

\* a verification without the loop over the adjacent pairs
verifySlashableAttestationUnordered(att, verify) ==
    LET emptyCustody == [i \in 1..Len(att.custody_bitfield) |-> 0]
        n == Len(att.validator_indices)
    IN  IF BytesEqual(att.custody_bitfield, emptyCustody)
        THEN "custody bit field can't all be 0s"
        ELSE IF n = 0 THEN "empty validator indices"
        ELSE IF Len(att.custody_bitfield) # CeilDiv8(n)
            THEN "custody bit field length don't match indices length"
        ELSE IF n > MaxIndicesPerSlashableVote
            THEN "validator indices length exceeded max indices per slashable vote"
        ELSE "nil"

verifySlashableAttestation(att, verify) ==
    LET emptyCustody == [i \in 1..Len(att.custody_bitfield) |-> 0]
        n == Len(att.validator_indices)
    IN  IF BytesEqual(att.custody_bitfield, emptyCustody)
        THEN "custody bit field can't all be 0s"
        ELSE IF n = 0 THEN "empty validator indices"
        ELSE IF indicesOutOfOrder(att.validator_indices)
            THEN "validator indices not in descending order"
        ELSE IF Len(att.custody_bitfield) # CeilDiv8(n)
            THEN "custody bit field length don't match indices length"
        ELSE IF n > MaxIndicesPerSlashableVote
            THEN "validator indices length exceeded max indices per slashable vote"
        ELSE IF verify THEN "nil"
        ELSE "nil"

verifyAttesterSlashing(slashing, verify) ==
    LET slashableAttestation1 == slashing.slashable_attestation_1
        slashableAttestation2 == slashing.slashable_attestation_2
        data1 == slashableAttestation1.data
        data2 == slashableAttestation2.data
        err1 == verifySlashableAttestation(slashableAttestation1, verify)
        err2 == verifySlashableAttestation(slashableAttestation2, verify)
    IN  IF DeepEqual(data1, data2)
        THEN "inner slashable vote data attestation should not match"
        ELSE IF ~(isDoubleVote(data1, data2) \/ isSurroundVote(data1, data2))
            THEN "attester slashing is not a double vote nor surround vote"
        ELSE IF err1 # "nil" THEN "attestation 1: " \o err1
        ELSE IF err2 # "nil" THEN "attestation 2: " \o err2
        ELSE "nil"

\* the nested scan of attesterSlashableIndices: acc is the slice built so
\* far, or panics once a common index lies outside the registry
RECURSIVE slashableIndicesScan(_, _, _, _, _, _)
slashableIndicesScan(st, indices1, indices2, i, j, acc) ==
    IF i > Len(indices1) THEN [panic |-> FALSE, indices |-> acc]
    ELSE IF j > Len(indices2) THEN slashableIndicesScan(st, indices1, indices2, i + 1, 1, acc)
    ELSE IF indices1[i] # indices2[j]
        THEN slashableIndicesScan(st, indices1, indices2, i, j + 1, acc)
    ELSE IF ~InRange(indices1[i], st.validator_registry)
        THEN [panic |-> TRUE, indices |-> acc]
    ELSE IF st.validator_registry[indices1[i] + 1].penalized_epoch > CurrentEpoch(st)
        THEN slashableIndicesScan(st, indices1, indices2, i, j + 1, Append(acc, indices1[i]))
    ELSE slashableIndicesScan(st, indices1, indices2, i, j + 1, acc)

\* result: [panic, err, indices]
attesterSlashableIndices(st, slashing) ==
    LET scan == slashableIndicesScan(st,
                    slashing.slashable_attestation_1.validator_indices,
                    slashing.slashable_attestation_2.validator_indices, 1, 1, <<>>)
    IN  IF scan.panic THEN [panic |-> TRUE, err |-> "nil", indices |-> <<>>]
        ELSE IF Len(scan.indices) < 1
            THEN [panic |-> FALSE, err |-> "expected a non-empty list of slashable indices",
                  indices |-> <<>>]
        ELSE [panic |-> FALSE, err |-> "nil", indices |-> scan.indices]

\* the inner loop of ProcessAttesterSlashings: penalize every slashable index
RECURSIVE PenalizeAll(_, _, _, _)
PenalizeAll(acc, indices, n, item) ==
    IF n > Len(indices) THEN acc
    ELSE PenalizeAll(
            Outcome(PenalizeValidator(acc.st, indices[n]), RetOk,
                    Append(acc.log, [op |-> "penalize", item |-> item, index |-> indices[n]])),
            indices, n + 1, item)

\* body of the loop over body.AttesterSlashings
AttesterSlashingStep(acc, slashing, item, verify) ==
    LET err == verifyAttesterSlashing(slashing, verify)
        slashable == attesterSlashableIndices(acc.st, slashing)
    IN  IF err # "nil" THEN Outcome(acc.st, RetErr(err, item), acc.log)
        ELSE IF slashable.panic THEN Outcome(acc.st, RetPanic(item), acc.log)
        ELSE IF slashable.err # "nil" THEN Outcome(acc.st, RetErr(slashable.err, item), acc.log)
        ELSE PenalizeAll(acc, slashable.indices, 1, item)

RECURSIVE AttesterSlashingsLoop(_, _, _, _)
AttesterSlashingsLoop(acc, slashings, k, verify) ==
    IF k > Len(slashings) THEN acc
    ELSE LET nxt == AttesterSlashingStep(acc, slashings[k], k - 1, verify)
         IN  IF nxt.ret.kind # "ok" THEN nxt
             ELSE AttesterSlashingsLoop(nxt, slashings, k + 1, verify)

ProcessAttesterSlashings(st, blk, verify) ==
    IF Len(blk.body.attester_slashings) > MaxAttesterSlashings
    THEN Outcome(st, RetErr("number of attester slashings exceeds threshold", NoItem), <<>>)
    ELSE AttesterSlashingsLoop(Outcome(st, RetOk, <<>>),
                               blk.body.attester_slashings, 1, verify)

(***************************************************************************)
(* Attestations.                                                           *)
(***************************************************************************)
\* BlockRoot of the same package: the root of the block at slot, from the
\* ring of the latest block roots; fails for a slot outside the ring
BlockRoot(st, slot) ==
    LET earliestSlot == IF st.slot > LatestBlockRootsLength
                        THEN st.slot - LatestBlockRootsLength ELSE 0
    IN  IF slot < earliestSlot \/ slot >= st.slot
        THEN [err |-> "slot out of bounds", root |-> EmptyBytes]
        ELSE [err |-> "nil",
              root |-> st.latest_block_roots[(slot % LatestBlockRootsLength) + 1]]

\* the two slot comparisons at the head of verifyAttestation, in uint64
inclusionWindowError(st, att) ==
    LET inclusionDelay == MinAttestationInclusionDelay
    IN  IF UAdd(att.data.slot, inclusionDelay) > st.slot
        THEN "attestation slot + inclusion delay beyond current beacon state slot"
        ELSE IF UAdd(att.data.slot, EpochLength) < st.slot
            THEN "attestation slot + epoch length less than current beacon state slot"
        ELSE "nil"

justifiedEpochError(st, att) ==
    IF att.data.slot >= StartSlot(SlotToEpoch(st.slot))
    THEN IF att.data.justified_epoch # st.justified_epoch
         THEN "expected attestation.JustifiedEpoch == state.JustifiedEpoch" ELSE "nil"
    ELSE IF att.data.justified_epoch # st.previous_justified_epoch
         THEN "expected attestation.JustifiedEpoch == state.PreviousJustifiedEpoch" ELSE "nil"

\* "panic" stands for the index-out-of-range panic of LatestCrosslinks[shard]
verifyAttestation(st, att, verify) ==
    LET windowErr == inclusionWindowError(st, att)
        epochErr == justifiedEpochError(st, att)
        blockRoot == BlockRoot(st, StartSlot(att.data.justified_epoch))
        justifiedBlockRoot == att.data.justified_block_root
        crossLinkRoot == att.data.latest_crosslink_root
        shardBlockRoot == att.data.shard_block_root
        shard == att.data.shard
        stateShardBlockRoot == st.latest_crosslinks[shard + 1].shard_block_root
    IN  IF windowErr # "nil" THEN windowErr
        ELSE IF epochErr # "nil" THEN epochErr
        ELSE IF blockRoot.err # "nil" THEN "could not get block root for justified slot"
        ELSE IF ~BytesEqual(justifiedBlockRoot, blockRoot.root)
            THEN "expected JustifiedBlockRoot == getBlockRoot(state, JustifiedSlot)"
        ELSE IF ~InRange(shard, st.latest_crosslinks) THEN "panic"
        ELSE IF ~(BytesEqual(crossLinkRoot, stateShardBlockRoot)
                  \/ BytesEqual(shardBlockRoot, stateShardBlockRoot))
            THEN "attestation.CrossLinkRoot and ShardBlockRoot != state.LatestCrosslinks' ShardBlockRoot"
        ELSE IF ~BytesEqual(att.data.shard_block_root, EmptyBytes)
            THEN "expected attestation.ShardBlockRoot == []byte{}"
        ELSE IF verify THEN "nil"
        ELSE "nil"

PendingAttestationRecord(st, attestation) ==
    [data |-> attestation.data,
     aggregation_bitfield |-> attestation.aggregation_bitfield,
     custody_bitfield |-> attestation.custody_bitfield,
     slot_included |-> st.slot]

\* the loop over block.Body.Attestations: [ret, pending]
RECURSIVE BlockAttestationsLoop(_, _, _, _, _)
BlockAttestationsLoop(st, atts, k, verify, pendingAttestations) ==
    IF k > Len(atts) THEN [ret |-> RetOk, pending |-> pendingAttestations]
    ELSE LET err == verifyAttestation(st, atts[k], verify)
         IN  IF err = "panic" THEN [ret |-> RetPanic(k - 1), pending |-> pendingAttestations]
             ELSE IF err # "nil"
                 THEN [ret |-> RetErr(err, k - 1), pending |-> pendingAttestations]
             ELSE BlockAttestationsLoop(st, atts, k + 1, verify,
                    Append(pendingAttestations, PendingAttestationRecord(st, atts[k])))

\* a stage that appends the pending records to latest_attestations
ProcessBlockAttestationsAppending(st, blk, verify) ==
    LET atts == blk.body.attestations
        done == BlockAttestationsLoop(st, atts, 1, verify, <<>>)
    IN  IF Len(atts) > MaxAttestations
        THEN Outcome(st, RetErr("number of attestations in block exceeds threshold", NoItem), <<>>)
        ELSE IF done.ret.kind # "ok" THEN Outcome(st, done.ret, <<>>)
        ELSE Outcome([st EXCEPT !.latest_attestations = st.latest_attestations \o done.pending],
                     RetOk, <<>>)

ProcessBlockAttestations(st, blk, verify) ==
    LET atts == blk.body.attestations
        done == BlockAttestationsLoop(st, atts, 1, verify, <<>>)
    IN  IF Len(atts) > MaxAttestations
        THEN Outcome(st, RetErr("number of attestations in block exceeds threshold", NoItem), <<>>)
        ELSE IF done.ret.kind # "ok" THEN Outcome(st, done.ret, <<>>)
        ELSE Outcome([st EXCEPT !.latest_attestations = done.pending], RetOk, <<>>)

(***************************************************************************)
(* Validator deposits.  deposit_data is a byte slice: DepositValueBytes    *)
(* bytes of value, DepositTimestampBytes bytes of timestamp, then the      *)
(* serialized DepositInput.                                                *)
(***************************************************************************)
DepositValueBytes == 8
DepositTimestampBytes == 8

\* the serialized DepositInput: one byte of public key, HashLen bytes of
\* withdrawal credentials, one byte of proof of possession
DepositInputLen == HashLen + 2

\* DecodeDepositInput: [err, input]
DecodeDepositInput(depositData) ==
    LET header == DepositValueBytes + DepositTimestampBytes
        depositInputBytes == SubSeq(depositData, header + 1, Len(depositData))
    IN  IF Len(depositData) < header
        THEN [err |-> "deposit data slice too small", input |-> <<>>]
        ELSE IF Len(depositInputBytes) # DepositInputLen
            THEN [err |-> "ssz decode failed", input |-> <<>>]
        ELSE [err |-> "nil",
              input |-> [pubkey |-> SubSeq(depositInputBytes, 1, 1),
                         withdrawal_credentials |-> SubSeq(depositInputBytes, 2, HashLen + 1),
                         proof_of_possession |->
                            SubSeq(depositInputBytes, HashLen + 2, HashLen + 2)]]

\* binary.BigEndian.Uint64 on the first DepositValueBytes bytes
RECURSIVE BigEndianUint64(_, _)
BigEndianUint64(b, n) ==
    IF n = 0 THEN 0 ELSE (b[n] + 256 * BigEndianUint64(b, n - 1)) % Modulus

\* trieutil.VerifyMerkleBranch: hash the leaf with its siblings up to the
\* root, the bits of the index telling on which side each sibling is
RECURSIVE merkleRootOf(_, _, _, _, _)
merkleRootOf(value, branch, depth, index, i) ==
    IF i > depth THEN value
    ELSE LET sibling == ToBytes32(branch[i])
             parent == IF (index \div (2 ^ (i - 1))) % 2 = 1
                       THEN Hash(sibling \o value) ELSE Hash(value \o sibling)
         IN  merkleRootOf(parent, branch, depth, index, i + 1)

VerifyMerkleBranch(leaf, branch, depth, index, root) ==
    Len(branch) >= depth /\ merkleRootOf(leaf, branch, depth, index, 1) = root

verifyDeposit(st, deposit) ==
    LET receiptRoot == ToBytes32(st.latest_eth1_data.deposit_root)
    IN  IF ~VerifyMerkleBranch(Hash(deposit.deposit_data), deposit.merkle_branch,
                               DepositContractTreeDepth, deposit.merkle_tree_index,
                               receiptRoot)
        THEN "deposit merkle branch of deposit root did not verify for root"
        ELSE "nil"

\* stateutils.ValidatorIndexMap: the index of the validator holding a public
\* key, or NoItem
ValidatorIndexMap(st, pubkey) ==
    LET holders == {i \in 1..Len(st.validator_registry) :
                        st.validator_registry[i].pubkey = pubkey}
    IN  IF holders = {} THEN NoItem
        ELSE (CHOOSE i \in holders : \A other \in holders : i >= other) - 1

\* the validator a deposit with a new public key adds to the registry
NewValidator(pubkey, withdrawalCredentials) ==
    [penalized_epoch |-> FarFutureEpoch, exit_epoch |-> FarFutureEpoch,
     initiated_exit |-> FALSE,
     randao_commitment |-> ZeroHash, randao_layers |-> 0,
     pubkey |-> pubkey, withdrawal_credentials |-> withdrawalCredentials]

\* validators.ProcessDeposit: [err, st, index].  indexState is the state the
\* index map was built from.
ProcessDeposit(st, indexState, pubkey, amount, proofOfPossession, withdrawalCredentials) ==
    LET existingValidatorIdx == ValidatorIndexMap(indexState, pubkey)
    IN  IF existingValidatorIdx = NoItem
        THEN [err |-> "nil", index |-> Len(st.validator_registry),
              st |-> [st EXCEPT
                        !.validator_registry =
                            Append(@, NewValidator(pubkey, withdrawalCredentials)),
                        !.validator_balances = Append(@, amount)]]
        ELSE IF st.validator_registry[existingValidatorIdx + 1].withdrawal_credentials
                    # withdrawalCredentials
            THEN [err |-> "expected withdrawal credentials to match", index |-> NoItem,
                  st |-> st]
        ELSE [err |-> "nil", index |-> existingValidatorIdx,
              st |-> [st EXCEPT !.validator_balances[existingValidatorIdx + 1] =
                                    UAdd(@, amount)]]

\* the record of one invocation of process_deposit: the state handed to it,
\* the state and the error it returned
DepositCall(item, received, done) ==
    [op |-> "process_deposit", item |-> item, index |-> done.index,
     received |-> received, returned |-> done.st, err |-> done.err]

\* a loop body that applies the deposit whatever verifyDeposit says
ValidatorDepositStepUnverified(acc, deposit, item, indexState) ==
    LET depositData == deposit.deposit_data
        decoded == DecodeDepositInput(depositData)
        depositInput == decoded.input
        depositValue == SubSeq(depositData, 1, DepositValueBytes)
        done == ProcessDeposit(acc.st, indexState, depositInput.pubkey,
                               BigEndianUint64(depositValue, DepositValueBytes),
                               depositInput.proof_of_possession,
                               depositInput.withdrawal_credentials)
    IN  IF decoded.err # "nil"
        THEN Outcome(acc.st, RetErr("could not decode deposit input", item), acc.log)
        ELSE IF done.err # "nil"
            THEN Outcome(acc.st, RetErr("could not process deposit into beacon state", item),
                         Append(acc.log, DepositCall(item, acc.st, done)))
        ELSE Outcome(done.st, RetOk, Append(acc.log, DepositCall(item, acc.st, done)))

\* body of the loop over block.Body.Deposits
ValidatorDepositStep(acc, deposit, item, indexState) ==
    LET depositData == deposit.deposit_data
        decoded == DecodeDepositInput(depositData)
        depositInput == decoded.input
        err == verifyDeposit(acc.st, deposit)
        depositValue == SubSeq(depositData, 1, DepositValueBytes)
        done == ProcessDeposit(acc.st, indexState, depositInput.pubkey,
                               BigEndianUint64(depositValue, DepositValueBytes),
                               depositInput.proof_of_possession,
                               depositInput.withdrawal_credentials)
    IN  IF decoded.err # "nil"
        THEN Outcome(acc.st, RetErr("could not decode deposit input", item), acc.log)
        ELSE IF err # "nil"
            THEN Outcome(acc.st, RetErr("could not verify deposit", item), acc.log)
        ELSE IF done.err # "nil"
            THEN Outcome(acc.st, RetErr("could not process deposit into beacon state", item),
                         Append(acc.log, DepositCall(item, acc.st, done)))
        ELSE Outcome(done.st, RetOk, Append(acc.log, DepositCall(item, acc.st, done)))

RECURSIVE ValidatorDepositsLoop(_, _, _, _)
ValidatorDepositsLoop(acc, deposits, k, indexState) ==
    IF k > Len(deposits) THEN acc
    ELSE LET nxt == ValidatorDepositStep(acc, deposits[k], k - 1, indexState)
         IN  IF nxt.ret.kind # "ok" THEN nxt
             ELSE ValidatorDepositsLoop(nxt, deposits, k + 1, indexState)

\* a stage that processes a list of any length
ProcessValidatorDepositsUnlimited(st, blk) ==
    ValidatorDepositsLoop(Outcome(st, RetOk, <<>>), blk.body.deposits, 1, st)

\* the index map is built once, before the loop
ProcessValidatorDeposits(st, blk) ==
    LET deposits == blk.body.deposits
    IN  IF Len(deposits) > MaxDeposits
        THEN Outcome(st, RetErr("number of deposits exceeds allowed threshold", NoItem), <<>>)
        ELSE ValidatorDepositsLoop(Outcome(st, RetOk, <<>>), deposits, 1, st)

(***************************************************************************)
(* Voluntary exits.                                                        *)
(***************************************************************************)
\* "panic" stands for the index-out-of-range panic of
\* ValidatorRegistry[exit.ValidatorIndex]
verifyExit(st, exit, verify) ==
    LET validator == st.validator_registry[exit.validator_index + 1]
        currentEpoch == CurrentEpoch(st)
        entryExitEffectEpoch == EntryExitEffectEpoch(currentEpoch)
    IN  IF ~InRange(exit.validator_index, st.validator_registry) THEN "panic"
        ELSE IF validator.exit_epoch <= entryExitEffectEpoch
            THEN "validator exit epoch should be > entry_exit_effect_epoch"
        ELSE IF currentEpoch < exit.epoch THEN "expected current epoch >= exit.epoch"
        ELSE IF verify THEN "nil"
        ELSE "nil"

\* body of the loop over block.Body.Exits
ValidatorExitStep(acc, exit, item, verify) ==
    LET err == verifyExit(acc.st, exit, verify)
    IN  IF err = "panic" THEN Outcome(acc.st, RetPanic(item), acc.log)
        ELSE IF err # "nil" THEN Outcome(acc.st, RetErr(err, item), acc.log)
        ELSE Outcome(InitiateValidatorExit(acc.st, exit.validator_index), RetOk,
                     Append(acc.log, [op |-> "initiate_exit", item |-> item,
                                      index |-> exit.validator_index]))

RECURSIVE ValidatorExitsLoop(_, _, _, _)
ValidatorExitsLoop(acc, exits, k, verify) ==
    IF k > Len(exits) THEN acc
    ELSE LET nxt == ValidatorExitStep(acc, exits[k], k - 1, verify)
         IN  IF nxt.ret.kind # "ok" THEN nxt
             ELSE ValidatorExitsLoop(nxt, exits, k + 1, verify)

\* the registry slice written back at the end is the slice read at the
\* start, whose validators the helper has written to
ProcessValidatorExits(st, blk, verify) ==
    IF Len(blk.body.exits) > MaxExits
    THEN Outcome(st, RetErr("number of exits exceeds threshold", NoItem), <<>>)
    ELSE ValidatorExitsLoop(Outcome(st, RetOk, <<>>), blk.body.exits, 1, verify)

(***************************************************************************)
(* The store of exits (package db).  A bucket is a function from keys to   *)
(* values; both are byte slices.                                           *)
(***************************************************************************)
\* proto.Marshal of an Exit: fields 1 (epoch) and 2 (validator_index) are
\* varints and left out when 0; field 3 is the signature, one byte here
Marshal(exit) ==
    (IF exit.epoch # 0 THEN <<8, exit.epoch>> ELSE <<>>)
        \o (IF exit.validator_index # 0 THEN <<16, exit.validator_index>> ELSE <<>>)
        \o <<26, 1, IF exit.signature_ok THEN 1 ELSE 0>>

\* hashutil.HashProto
HashProto(exit) == Hash(Marshal(exit))

\* bolt's Bucket.Put and Bucket.Get; Get returns nil for a key that is not
\* in the bucket
EmptyBucket == [key \in {} |-> <<>>]

BucketPut(bucket, key, value) ==
    [k \in (DOMAIN bucket) \cup {key} |-> IF k = key THEN value ELSE bucket[k]]

BucketGet(bucket, key) ==
    IF key \in DOMAIN bucket THEN [nil |-> FALSE, bytes |-> bucket[key]]
    ELSE [nil |-> TRUE, bytes |-> <<>>]

\* a key taken from the encoding itself
exitKeyOfEncoding(exit) == ToBytes32(Marshal(exit))

\* the key an exit is stored under
exitKey(exit) == HashProto(exit)

\* SaveExit: [err, bucket].  committed tells whether the update transaction
\* was committed; a transaction that fails leaves the bucket as it was.
SaveExit(bucket, exit, committed) ==
    LET hash == exitKey(exit)
        encodedState == Marshal(exit)
    IN  IF committed
        THEN [err |-> "nil", bucket |-> BucketPut(bucket, hash, encodedState)]
        ELSE [err |-> "update failed", bucket |-> bucket]

HasExit(bucket, hash) == ~BucketGet(bucket, hash).nil

(***************************************************************************)
(* Inputs: the blocks a caller hands to a stage.                           *)
(***************************************************************************)
SeqsOfLen(S, lo, hi) == UNION {[1..m -> S] : m \in lo..hi}

\* operation lists: any single item, short lists of the items of Small, and
\* one list longer than the limit
OpLists(Full, Small, limit, filler) ==
    {<<>>} \cup {<<x>> : x \in Full} \cup SeqsOfLen(Small, 2, MaxOps)
           \cup {[i \in 1..(limit + 1) |-> filler]}

ProposalSignedData(slot, shard, root) ==
    [slot |-> slot, shard |-> shard, block_root |-> root]

ProposerSlashing(index, data1, data2) ==
    [proposer_index |-> index, proposal_data_1 |-> data1, proposal_data_2 |-> data2]

ProposerSlashingItems ==
    {ProposerSlashing(i, ProposalSignedData(10, 3, RootA), ProposalSignedData(s, sh, r)) :
        i \in 0..NumValidators, s \in {10, 11}, sh \in {3, 4}, r \in {RootA, RootB}}

ProposerSlashingSmall ==
    {ProposerSlashing(i, ProposalSignedData(10, 3, RootA), ProposalSignedData(10, 3, r)) :
        i \in {0, 1, NumValidators}, r \in {RootA, RootB}}

AttestationData(slot, shard, je, jr, cr, sr) ==
    [slot |-> slot, shard |-> shard, justified_epoch |-> je, justified_block_root |-> jr,
     latest_crosslink_root |-> cr, shard_block_root |-> sr]

\* the data of a vote: target slot, shard and source epoch
VoteData(slot, shard, je) == AttestationData(slot, shard, je, RootA, RootA, EmptyBytes)

SlashableAttestation(data, indices, custody) ==
    [data |-> data, validator_indices |-> indices, custody_bitfield |-> custody]

AttesterSlashing(att1, att2) ==
    [slashable_attestation_1 |-> att1, slashable_attestation_2 |-> att2]

\* slots of epoch 1 and epoch 2
VoteSlots == {EpochLength + 6, EpochLength + 7, 2 * EpochLength + 2}

IndexLists ==
    SeqsOfLen(0..NumValidators, 0, MaxIdxLen)
        \cup {[i \in 1..(MaxIndicesPerSlashableVote + 1) |-> i - 1]}

AscendingIndexLists ==
    {l \in IndexLists : \A i \in 1..(Len(l) - 1) : l[i] < l[i + 1]} \cup {<<1, 0>>, <<1, 1>>}

CustodyBitfields == {<<>>, <<0>>, <<1>>, <<0, 0>>, <<1, 1>>}

DoubleVote1 == VoteData(2 * EpochLength + 2, 0, 0)
DoubleVote2 == VoteData(2 * EpochLength + 2, 1, 0)

AttesterSlashingItems ==
    {AttesterSlashing(SlashableAttestation(VoteData(s1, 0, j1), <<0, 1>>, <<1>>),
                      SlashableAttestation(VoteData(s2, sh, j2), <<0, 1>>, <<1>>)) :
        s1 \in VoteSlots, s2 \in VoteSlots, j1 \in {0, 1}, j2 \in {0, 1}, sh \in {0, 1}}
    \cup
    {AttesterSlashing(SlashableAttestation(DoubleVote1, l1, <<1>>),
                      SlashableAttestation(DoubleVote2, l2, <<1>>)) :
        l1 \in IndexLists, l2 \in AscendingIndexLists}
    \cup
    {AttesterSlashing(SlashableAttestation(DoubleVote1, <<0, 1>>, c1),
                      SlashableAttestation(DoubleVote2, <<0, 1>>, c2)) :
        c1 \in CustodyBitfields, c2 \in CustodyBitfields}

AttesterSlashingSmall ==
    {AttesterSlashing(SlashableAttestation(DoubleVote1, l1, <<1>>),
                      SlashableAttestation(d2, l2, <<1>>)) :
        l1 \in {<<0>>, <<1>>, <<0, 1>>}, l2 \in {<<0, 1>>}, d2 \in {DoubleVote1, DoubleVote2}}
    \cup
    {AttesterSlashing(SlashableAttestation(DoubleVote1, <<0, 1>>, <<1>>),
                      SlashableAttestation(DoubleVote2, <<1, 1>>, <<1>>))}

Attestation(data, aggregation) ==
    [data |-> data, aggregation_bitfield |-> aggregation, custody_bitfield |-> <<1>>]

\* attestation slots around the inclusion window of the initial state slots,
\* and slots at the top of the unsigned range
AttestationSlots == {35, 36, 46, 60, 96, 97, MaxUint - 3, MaxUint}

AttestationItems ==
    {Attestation(AttestationData(s, sh, je, jr, cr, sr), <<1>>) :
        s \in AttestationSlots, sh \in {0, 1, ShardCount}, je \in {0, 1},
        jr \in {RootA, RootB}, cr \in {RootA, ZeroHash}, sr \in {EmptyBytes, ZeroHash, RootA}}

AttestationSmall ==
    {Attestation(AttestationData(d[1], 0, d[2], d[3], RootA, EmptyBytes), a) :
        d \in {<<96, 1, RootB>>, <<46, 0, RootA>>, <<97, 1, RootB>>}, a \in {<<1>>, <<3>>}}

Exit(index, epoch, sigOk) ==
    [validator_index |-> index, epoch |-> epoch, signature_ok |-> sigOk]

ExitItems == {Exit(i, e, ok) : i \in 0..NumValidators, e \in {0, 1, 2}, ok \in BOOLEAN}

ExitSmall == {Exit(i, e, TRUE) : i \in {0, 1, 2}, e \in {0, 2}}

Eth1Data(depositRoot, blockHash) == [deposit_root |-> depositRoot, block_hash |-> blockHash]

Eth1DataItems == {Eth1Data(RootA, RootA), Eth1Data(RootA, RootB), Eth1Data(RootB, RootB)}

\* a reveal one byte short of a hash, and one a byte too long; both have the
\* bytes of RootA where they overlap with it
ShortReveal == SubSeq(RootA, 1, HashLen - 1)
LongReveal == RootA \o <<0>>

RandaoReveals == {RootA, RootB, ShortReveal, LongReveal}

\* the big-endian encoding of a value in DepositValueBytes bytes
RECURSIVE ShiftRightBytes(_, _)
ShiftRightBytes(value, n) == IF n = 0 THEN value ELSE ShiftRightBytes(value \div 256, n - 1)

EncodeUint64(value) ==
    [i \in 1..DepositValueBytes |-> ShiftRightBytes(value, DepositValueBytes - i) % 256]

DepositData(value, timestamp, pubkey, withdrawalCredentials, proofOfPossession) ==
    EncodeUint64(value) \o EncodeUint64(timestamp)
        \o pubkey \o withdrawalCredentials \o proofOfPossession

Deposit(depositData, branch, index) ==
    [deposit_data |-> depositData, merkle_branch |-> branch, merkle_tree_index |-> index]

\* the root of the deposit contract's tree held by the state
DepositRoot == RootB

HashValues == [1..HashLen -> {0, 1}]

\* a branch that proves the inclusion of the data at the index under
\* DepositRoot
ValidBranch(depositData, index) ==
    CHOOSE branch \in [1..DepositContractTreeDepth -> HashValues] :
        VerifyMerkleBranch(Hash(depositData), branch, DepositContractTreeDepth, index,
                           DepositRoot)

\* the branch with one byte flipped
FlippedBranch(branch) == [branch EXCEPT ![1][1] = 1 - @]

\* a deposit of a new public key, a top-up of validator 0, a deposit to
\* validator 1 under other withdrawal credentials
WellFormedDepositData ==
    {DepositData(32, 7, <<NumValidators>>, RootB, <<1>>),
     DepositData(1, 7, <<0>>, RootA, <<1>>),
     DepositData(2, 7, <<1>>, RootB, <<1>>)}

\* data cut inside the header, and data cut inside the DepositInput
MalformedDepositData ==
    {SubSeq(DepositData(1, 7, <<0>>, RootA, <<1>>), 1,
            DepositValueBytes + DepositTimestampBytes - 1),
     SubSeq(DepositData(1, 7, <<0>>, RootA, <<1>>), 1,
            DepositValueBytes + DepositTimestampBytes + DepositInputLen - 1)}

DepositItems ==
    UNION {{Deposit(d, ValidBranch(d, i), i), Deposit(d, FlippedBranch(ValidBranch(d, i)), i)} :
            d \in WellFormedDepositData \cup MalformedDepositData, i \in {0, 1}}

DepositSmall ==
    {Deposit(d, ValidBranch(d, 0), 0) : d \in WellFormedDepositData}
        \cup {Deposit(d, FlippedBranch(ValidBranch(d, 0)), 0) :
                d \in {DepositData(1, 7, <<0>>, RootA, <<1>>)}}
        \cup {Deposit(d, ValidBranch(d, 0), 0) :
                d \in {SubSeq(DepositData(1, 7, <<0>>, RootA, <<1>>), 1,
                               DepositValueBytes + DepositTimestampBytes + DepositInputLen - 1)}}

EmptyBody ==
    [proposer_slashings |-> <<>>, attester_slashings |-> <<>>,
     attestations |-> <<>>, deposits |-> <<>>, exits |-> <<>>]

EmptyBlock ==
    [eth1_data |-> Eth1Data(ZeroHash, ZeroHash), randao_reveal |-> ZeroHash,
     body |-> EmptyBody]

(***************************************************************************)
(* Beacon states a caller may hold.                                        *)
(***************************************************************************)
\* validator number index: its commitment is the hash, randao_layers times,
\* of RootA (even index) or RootB (odd index)
Validator(index, penalized, exited) ==
    [penalized_epoch |-> IF penalized THEN 0 ELSE FarFutureEpoch,
     exit_epoch |-> IF exited THEN 0 ELSE FarFutureEpoch,
     initiated_exit |-> FALSE,
     randao_commitment |-> RepeatHash(IF index % 2 = 0 THEN RootA ELSE RootB, index % 3),
     randao_layers |-> index % 3,
     pubkey |-> <<index>>,
     withdrawal_credentials |-> RootA]

StateSlots == {50, 100}

BeaconState(slot, penalizedSet, exitedSet) ==
    [slot |-> slot,
     validator_registry |->
        [i \in 1..NumValidators |->
            Validator(i - 1, (i - 1) \in penalizedSet, (i - 1) \in exitedSet)],
     validator_balances |-> [i \in 1..NumValidators |-> 32],
     eth1_data_votes |->
        IF slot = 50 THEN <<>> ELSE <<Eth1DataVote(Eth1Data(RootA, RootB), 2)>>,
     latest_eth1_data |-> Eth1Data(DepositRoot, RootA),
     latest_randao_mixes |->
        [i \in 1..LatestRandaoMixesLength |-> IF i % 2 = 1 THEN RootB ELSE ZeroHash],
     justified_epoch |-> SlotToEpoch(slot),
     previous_justified_epoch |-> IF SlotToEpoch(slot) > 0 THEN SlotToEpoch(slot) - 1 ELSE 0,
     latest_block_roots |->
        [i \in 1..LatestBlockRootsLength |->
            IF i = 1 THEN RootA ELSE IF i = EpochLength + 1 THEN RootB ELSE ZeroHash],
     latest_crosslinks |->
        [i \in 1..ShardCount |-> [shard_block_root |-> IF i = 1 THEN RootA ELSE ZeroHash]],
     latest_attestations |->
        <<[data |-> AttestationData(slot - 5, 0, 0, RootA, RootA, EmptyBytes),
           aggregation_bitfield |-> <<1>>, custody_bitfield |-> <<1>>,
           slot_included |-> slot - 1]>>]

\* some states have no active validator left
InitStates ==
    {BeaconState(slot, p, e) : slot \in StateSlots, p \in {{}, {0}}, e \in {{}, {1}}}
        \cup {BeaconState(slot, {}, 0..(NumValidators - 1)) : slot \in StateSlots}

(***************************************************************************)
(* The caller: holds a beacon state and hands it, with a block, to one of  *)
(* the stages.                                                             *)
(***************************************************************************)
Init ==
    /\ state \in InitStates
    /\ pre = state
    /\ block = EmptyBlock
    /\ verifySignatures = FALSE
    /\ stage = "none"
    /\ ret = RetOk
    /\ log = <<>>
    /\ pc = "idle"
    /\ prev = [stage |-> "none", block |-> EmptyBlock, pre |-> state, ret |-> RetOk]
    /\ calls = 0
    /\ blockOperationsBucket = EmptyBucket
    /\ savedExits = {}
    /\ dbCall = [op |-> "none"]

\* prev keeps the call before the last one
Return(stageName, blk, verify, out) ==
    /\ prev' = [stage |-> stage, block |-> block, pre |-> pre, ret |-> ret]
    /\ calls' = calls + 1
    /\ pre' = state
    /\ block' = blk
    /\ verifySignatures' = verify
    /\ stage' = stageName
    /\ state' = out.st
    /\ ret' = out.ret
    /\ log' = out.log
    /\ pc' = "returned"
    /\ UNCHANGED dbVars

CallProcessProposerSlashings ==
    /\ pc = "idle"
    /\ \E list \in OpLists(ProposerSlashingItems, ProposerSlashingSmall,
                           MaxProposerSlashings, ProposerSlashing(0,
                                ProposalSignedData(10, 3, RootA), ProposalSignedData(10, 3, RootA))),
          verify \in BOOLEAN :
        LET blk == [EmptyBlock EXCEPT !.body.proposer_slashings = list]
        IN  Return("proposer_slashings", blk, verify,
                   ProcessProposerSlashings(state, blk, verify))

CallProcessAttesterSlashings ==
    /\ pc = "idle"
    /\ \E list \in OpLists(AttesterSlashingItems, AttesterSlashingSmall,
                           MaxAttesterSlashings,
                           AttesterSlashing(SlashableAttestation(DoubleVote1, <<0, 1>>, <<1>>),
                                            SlashableAttestation(DoubleVote2, <<0, 1>>, <<1>>))),
          verify \in BOOLEAN :
        LET blk == [EmptyBlock EXCEPT !.body.attester_slashings = list]
        IN  Return("attester_slashings", blk, verify,
                   ProcessAttesterSlashings(state, blk, verify))

CallProcessBlockAttestations ==
    /\ pc = "idle"
    /\ \E list \in OpLists(AttestationItems, AttestationSmall, MaxAttestations,
                           Attestation(AttestationData(46, 0, 0, RootA, RootA, EmptyBytes), <<1>>)),
          verify \in BOOLEAN :
        LET blk == [EmptyBlock EXCEPT !.body.attestations = list]
        IN  Return("attestations", blk, verify,
                   ProcessBlockAttestations(state, blk, verify))

CallProcessValidatorExits ==
    /\ pc = "idle"
    /\ \E list \in OpLists(ExitItems, ExitSmall, MaxExits, Exit(0, 0, TRUE)),
          verify \in BOOLEAN :
        LET blk == [EmptyBlock EXCEPT !.body.exits = list]
        IN  Return("exits", blk, verify, ProcessValidatorExits(state, blk, verify))

CallProcessValidatorDeposits ==
    /\ pc = "idle"
    /\ \E list \in OpLists(DepositItems, DepositSmall, MaxDeposits,
                           Deposit(DepositData(1, 7, <<0>>, RootA, <<1>>),
                                   ValidBranch(DepositData(1, 7, <<0>>, RootA, <<1>>), 0), 0)) :
        LET blk == [EmptyBlock EXCEPT !.body.deposits = list]
        IN  Return("deposits", blk, FALSE, ProcessValidatorDeposits(state, blk))

\* the ETH1 data and randao stages may be called again on the state a call
\* of one of them has left behind
CanCallAgain ==
    /\ calls < MaxCalls
    /\ \/ pc = "idle"
       \/ pc = "returned" /\ stage \in {"eth1_data", "randao"} /\ ret.kind # "panic"

CallProcessEth1Data ==
    /\ CanCallAgain
    /\ \E eth1Data \in Eth1DataItems :
        LET blk == [EmptyBlock EXCEPT !.eth1_data = eth1Data]
        IN  Return("eth1_data", blk, FALSE, ProcessEth1Data(state, blk))

CallProcessBlockRandao ==
    /\ CanCallAgain
    /\ \E reveal \in RandaoReveals :
        LET blk == [EmptyBlock EXCEPT !.randao_reveal = reveal]
        IN  Return("randao", blk, FALSE, ProcessBlockRandao(state, blk))

\* A caller that retries: the stage that has just returned an error is
\* invoked again with the same block and the same flag on the state object
\* the caller holds, which is the object the failed call was working on.
RetryFailedStage ==
    /\ pc = "returned"
    /\ calls < MaxCalls
    /\ ret.kind = "err"
    /\ stage \in {"proposer_slashings", "attester_slashings", "attestations",
                  "deposits", "exits"}
    /\ Return(stage, block, verifySignatures,
              CASE stage = "proposer_slashings" ->
                        ProcessProposerSlashings(state, block, verifySignatures)
                [] stage = "attester_slashings" ->
                        ProcessAttesterSlashings(state, block, verifySignatures)
                [] stage = "attestations" ->
                        ProcessBlockAttestations(state, block, verifySignatures)
                [] stage = "deposits" -> ProcessValidatorDeposits(state, block)
                [] stage = "exits" ->
                        ProcessValidatorExits(state, block, verifySignatures))

Next ==
    \/ RetryFailedStage
    \/ CallProcessEth1Data
    \/ CallProcessBlockRandao
    \/ CallProcessValidatorDeposits
    \/ CallProcessProposerSlashings
    \/ CallProcessAttesterSlashings
    \/ CallProcessBlockAttestations
    \/ CallProcessValidatorExits

Spec == Init /\ [][Next]_vars

(***************************************************************************)
(* The users of the store: exits are saved and looked up in any order.     *)
(* savedExits records the exits whose SaveExit returned nil.               *)
(***************************************************************************)
StoredExits == ExitSmall \cup {Exit(0, 0, FALSE), Exit(1, 0, FALSE)}

CallSaveExit ==
    /\ \E exit \in StoredExits, committed \in BOOLEAN :
        LET done == SaveExit(blockOperationsBucket, exit, committed)
        IN  /\ blockOperationsBucket' = done.bucket
            /\ savedExits' = IF done.err = "nil" THEN savedExits \cup {exit} ELSE savedExits
            /\ dbCall' = [op |-> "SaveExit", exit |-> exit, err |-> done.err]
    /\ UNCHANGED stageVars

CallHasExit ==
    /\ \E hash \in HashValues :
        dbCall' = [op |-> "HasExit", hash |-> hash,
                   exists |-> HasExit(blockOperationsBucket, hash)]
    /\ UNCHANGED <<blockOperationsBucket, savedExits>>
    /\ UNCHANGED stageVars

StoreInit == Init /\ state = BeaconState(50, {}, {})

StoreNext == CallSaveExit \/ CallHasExit

StoreSpec == StoreInit /\ [][StoreNext]_vars

(***************************************************************************)
(* Properties.                                                             *)
(***************************************************************************)
Returned(stageName) == pc = "returned" /\ stage = stageName

\* a call whose operation list holds exactly one item
SingleProposerSlashing ==
    Returned("proposer_slashings") /\ Len(block.body.proposer_slashings) = 1

SingleAttesterSlashing ==
    Returned("attester_slashings") /\ Len(block.body.attester_slashings) = 1

SingleAttestation ==
    Returned("attestations") /\ Len(block.body.attestations) = 1

\* the validators the helper penalize_validator was invoked on
PenalizedByCall == {log[n].index : n \in {m \in 1..Len(log) : log[m].op = "penalize"}}

NotYetPenalizedBefore(index) ==
    pre.validator_registry[index + 1].penalized_epoch > CurrentEpoch(pre)

\* C1: a proposer slashing (naming a proposer of the registry) is accepted
\* exactly when its two proposals have equal slots, equal shards and
\* different block roots; an accepted slashing of a proposer not yet
\* penalized invokes penalize_validator for that proposer.
C1_DistinctRootsAccepted ==
    (SingleProposerSlashing
        /\ InRange(block.body.proposer_slashings[1].proposer_index, pre.validator_registry))
    => LET slashing == block.body.proposer_slashings[1]
           twoProposals ==
                /\ slashing.proposal_data_1.slot = slashing.proposal_data_2.slot
                /\ slashing.proposal_data_1.shard = slashing.proposal_data_2.shard
                /\ slashing.proposal_data_1.block_root # slashing.proposal_data_2.block_root
       IN  /\ (ret.kind = "ok") <=> twoProposals
           /\ (twoProposals /\ NotYetPenalizedBefore(slashing.proposer_index))
                => PenalizedByCall = {slashing.proposer_index}

\* C2: whenever a stage returns an error, the beacon state that was passed
\* in equals its value before the call.
C2_NoPartialApplication ==
    (pc = "returned" /\ ret.kind = "err") => state = pre

\* C3: with verify_signatures on, the exit stage returns an error for a
\* block holding an exit whose signature does not verify.
C3_InvalidSignatureRejected ==
    (Returned("exits") /\ verifySignatures /\ Len(block.body.exits) <= MaxExits
        /\ \E k \in 1..Len(block.body.exits) : ~block.body.exits[k].signature_ok)
    => ret.kind = "err"

\* C4: every stage returns a state or an error for every state and block;
\* none ends in an out-of-range access.
C4_StagesTotal ==
    pc = "returned" => ret.kind \in {"ok", "err"}

\* C5: the slashing stages never invoke penalize_validator on a validator
\* whose penalized_epoch was already <= current_epoch before the block.
C5_SlashingMonotonicity ==
    (Returned("proposer_slashings") \/ Returned("attester_slashings"))
    => \A n \in 1..Len(log) :
            log[n].op = "penalize" => NotYetPenalizedBefore(log[n].index)

\* C5 witness: a block whose slashings name a validator penalized before
\* the block was processed to the end and penalized another validator.
C5_Witness ==
    /\ Returned("proposer_slashings") \/ Returned("attester_slashings")
    /\ ret.kind = "ok"
    /\ PenalizedByCall # {}
    /\ \/ \E k \in 1..Len(block.body.proposer_slashings) :
            LET i == block.body.proposer_slashings[k].proposer_index
            IN  InRange(i, pre.validator_registry) /\ ~NotYetPenalizedBefore(i)
       \/ \E k \in 1..Len(block.body.attester_slashings) :
            LET s == block.body.attester_slashings[k]
            IN  \E a \in 1..Len(s.slashable_attestation_1.validator_indices),
                   b \in 1..Len(s.slashable_attestation_2.validator_indices) :
                    LET i == s.slashable_attestation_1.validator_indices[a]
                    IN  /\ i = s.slashable_attestation_2.validator_indices[b]
                        /\ InRange(i, pre.validator_registry)
                        /\ ~NotYetPenalizedBefore(i)

Elements(seq) == {seq[n] : n \in 1..Len(seq)}

\* C6: for an attester slashing that passes verification the validators
\* penalized are exactly those in both index lists whose penalized_epoch is
\* > current_epoch; if there is none the stage fails, otherwise each of them
\* is penalized and nobody else.
C6_PenalizedSetExact ==
    (SingleAttesterSlashing
        /\ verifyAttesterSlashing(block.body.attester_slashings[1], verifySignatures) = "nil")
    => LET s == block.body.attester_slashings[1]
           slashable ==
                {i \in Elements(s.slashable_attestation_1.validator_indices)
                        \cap Elements(s.slashable_attestation_2.validator_indices) :
                    InRange(i, pre.validator_registry) /\ NotYetPenalizedBefore(i)}
       IN  /\ slashable = {} => ret.kind # "ok"
           /\ slashable # {} => (ret.kind = "ok" /\ PenalizedByCall = slashable)

NotSlashable == "attester slashing is not a double vote nor surround vote"
DataMatch == "inner slashable vote data attestation should not match"

\* att1's [justified_epoch, target epoch] interval strictly contains att2's
Surrounds(data1, data2) ==
    /\ data1.justified_epoch < data2.justified_epoch
    /\ (data2.slot \div EpochLength) < (data1.slot \div EpochLength)

C8_SurroundEitherOrder ==
    SingleAttesterSlashing
    => LET d1 == block.body.attester_slashings[1].slashable_attestation_1.data
           d2 == block.body.attester_slashings[1].slashable_attestation_2.data
       IN  (Surrounds(d1, d2) \/ Surrounds(d2, d1))
                => ~(ret.kind = "err" /\ ret.code = NotSlashable)

\* C8 amended: a surround vote is recognised only with the surrounding
\* attestation listed first: a pair in which att1 surrounds att2 gets past
\* the vote check, and a pair in which att2 surrounds att1 is rejected as
\* neither a double nor a surround vote.
C8_SurroundFirstListed ==
    SingleAttesterSlashing
    => LET d1 == block.body.attester_slashings[1].slashable_attestation_1.data
           d2 == block.body.attester_slashings[1].slashable_attestation_2.data
       IN  /\ Surrounds(d1, d2) => ~(ret.kind = "err" /\ ret.code = NotSlashable)
           /\ Surrounds(d2, d1) => (ret.kind = "err" /\ ret.code = NotSlashable)

\* C8 witness: a pair whose second attestation surrounds the first was
\* rejected.
C8_Witness ==
    /\ SingleAttesterSlashing
    /\ ret.kind = "err" /\ ret.code = NotSlashable
    /\ Surrounds(block.body.attester_slashings[1].slashable_attestation_2.data,
                 block.body.attester_slashings[1].slashable_attestation_1.data)

C10_InclusionWindow ==
    SingleAttestation
    => LET att == block.body.attestations[1]
           inWindow ==
                /\ att.data.slot + MinAttestationInclusionDelay <= pre.slot
                /\ att.data.slot + EpochLength >= pre.slot
           windowErrors ==
                {"attestation slot + inclusion delay beyond current beacon state slot",
                 "attestation slot + epoch length less than current beacon state slot"}
       IN  /\ inWindow <=> ~(ret.kind = "err" /\ ret.code \in windowErrors)
           /\ ~inWindow => ret.kind = "err"

\* an attestation that passes every check of verifyAttestation other than
\* the one on shard_block_root
PassesOtherChecks(st, att) ==
    /\ inclusionWindowError(st, att) = "nil"
    /\ justifiedEpochError(st, att) = "nil"
    /\ BlockRoot(st, StartSlot(att.data.justified_epoch)).err = "nil"
    /\ att.data.justified_block_root
            = BlockRoot(st, StartSlot(att.data.justified_epoch)).root
    /\ InRange(att.data.shard, st.latest_crosslinks)
    /\ \/ att.data.latest_crosslink_root
                = st.latest_crosslinks[att.data.shard + 1].shard_block_root
       \/ att.data.shard_block_root
                = st.latest_crosslinks[att.data.shard + 1].shard_block_root

\* C11: an attestation is accepted only if its shard_block_root is the
\* all-zero hash of full length, and one with the all-zero hash that passes
\* all the other checks is accepted.
C11_ZeroHashShardBlockRoot ==
    SingleAttestation
    => LET att == block.body.attestations[1]
       IN  /\ ret.kind = "ok" => att.data.shard_block_root = ZeroHash
           /\ (PassesOtherChecks(pre, att) /\ att.data.shard_block_root = ZeroHash)
                => ret.kind = "ok"

\* the proposer of the slot of the state a randao call was made on
ProposerBefore == pre.validator_registry[BeaconProposerIdx(pre, pre.slot).index + 1]
ProposerAfter == state.validator_registry[BeaconProposerIdx(pre, pre.slot).index + 1]

RandaoFields(validator) == <<validator.randao_commitment, validator.randao_layers>>

\* the ring entry of the slot of the state a randao call was made on
MixSlot == (pre.slot % LatestRandaoMixesLength) + 1

\* C12: ProcessBlockRandao succeeds exactly when the proposer lookup
\* succeeds and repeat_hash(block.randao_reveal, proposer.randao_layers) is
\* the proposer's randao_commitment; on a mismatch it returns an error and
\* leaves the mix and the proposer's commitment and layers as they were.
C12_RandaoAcceptance ==
    Returned("randao")
    => LET found == BeaconProposerIdx(pre, pre.slot).err = "nil"
           matches == RepeatHash(block.randao_reveal, ProposerBefore.randao_layers)
                        = ProposerBefore.randao_commitment
       IN  /\ ret.kind = "ok" <=> (found /\ matches)
           /\ (found /\ ~matches)
                => /\ ret.kind = "err"
                   /\ state.latest_randao_mixes = pre.latest_randao_mixes
                   /\ RandaoFields(ProposerAfter) = RandaoFields(ProposerBefore)

\* C13: after a successful ProcessBlockRandao the proposer of state.slot has
\* randao_commitment = block.randao_reveal and randao_layers = 0, and the
\* randao fields of every other validator are as before.
C13_ProposerRandaoReset ==
    (Returned("randao") /\ ret.kind = "ok")
    => LET proposerIndex == BeaconProposerIdx(pre, pre.slot).index
       IN  /\ BeaconProposerIdx(state, state.slot).index = proposerIndex
           /\ ProposerAfter.randao_commitment = block.randao_reveal
           /\ ProposerAfter.randao_layers = 0
           /\ Len(state.validator_registry) = Len(pre.validator_registry)
           /\ \A i \in 1..Len(pre.validator_registry) :
                i # proposerIndex + 1
                    => RandaoFields(state.validator_registry[i])
                            = RandaoFields(pre.validator_registry[i])

\* C13 witness: a reveal was accepted for a proposer with two layers left
\* and a different commitment.
C13_Witness ==
    /\ Returned("randao") /\ ret.kind = "ok"
    /\ ProposerBefore.randao_layers = 2
    /\ ProposerBefore.randao_commitment # block.randao_reveal
    /\ ProposerAfter.randao_layers = 0

\* the last two calls were ProcessBlockRandao with the same reveal, and the
\* first of them succeeded
SameRevealTwice ==
    /\ Returned("randao") /\ prev.stage = "randao"
    /\ prev.ret.kind = "ok"
    /\ prev.block.randao_reveal = block.randao_reveal
    /\ prev.pre.slot = pre.slot

\* C14: when ProcessBlockRandao succeeds for a reveal, applying it a second
\* time with the same reveal at the same slot succeeds too, and the mix at
\* slot mod LATEST_RANDAO_MIXES_LENGTH is back at its value before the first
\* application.
C14_RandaoInvolution ==
    SameRevealTwice
    => /\ ret.kind = "ok"
       /\ state.latest_randao_mixes[MixSlot] = prev.pre.latest_randao_mixes[MixSlot]

\* C14 witness: the second application undid a change the first had made
\* to the mix.
C14_Witness ==
    /\ SameRevealTwice /\ ret.kind = "ok"
    /\ pre.latest_randao_mixes[MixSlot] # prev.pre.latest_randao_mixes[MixSlot]
    /\ state.latest_randao_mixes[MixSlot] = prev.pre.latest_randao_mixes[MixSlot]

\* byte-wise XOR of a mix with a reveal
Xor(mix, reveal) == [i \in 1..Len(mix) |-> XorByte(mix[i], ToBytes32(reveal)[i])]

\* C15: ProcessBlockRandao never changes the number of entries of
\* latest_randao_mixes; a successful call sets the entry at slot mod
\* LATEST_RANDAO_MIXES_LENGTH to the XOR of its previous value and the
\* reveal and leaves every other entry as it was.
C15_MixRingUpdate ==
    Returned("randao")
    => /\ Len(state.latest_randao_mixes) = LatestRandaoMixesLength
       /\ Len(pre.latest_randao_mixes) = LatestRandaoMixesLength
       /\ ret.kind = "ok"
            => \A i \in 1..LatestRandaoMixesLength :
                    state.latest_randao_mixes[i] =
                        IF i = MixSlot
                        THEN Xor(pre.latest_randao_mixes[i], block.randao_reveal)
                        ELSE pre.latest_randao_mixes[i]

\* C15 witness: the third of three successful randao calls changed the mix
\* of the slot.
C15_Witness ==
    /\ Returned("randao") /\ ret.kind = "ok"
    /\ prev.stage = "randao" /\ prev.ret.kind = "ok"
    /\ calls = 3
    /\ state.latest_randao_mixes[MixSlot] # pre.latest_randao_mixes[MixSlot]

RECURSIVE SumOfVotes(_, _)
SumOfVotes(votes, n) == IF n = 0 THEN 0 ELSE votes[n].vote_count + SumOfVotes(votes, n - 1)

\* the tallies of the state before the call that hold the block's eth1_data
TalliesOfBlock ==
    {i \in 1..Len(pre.eth1_data_votes) : pre.eth1_data_votes[i].eth1_data = block.eth1_data}

\* C16: ProcessEth1Data never fails; it adds 1 to the vote_count of exactly
\* one existing tally of the block's eth1_data or, when there is none,
\* appends the tally (eth1_data, 1) at the end; the sum of the counts grows
\* by 1 and every other tally keeps its count and its place.
C16_Eth1TallyClosure ==
    Returned("eth1_data")
    => LET before == pre.eth1_data_votes
           after == state.eth1_data_votes
       IN  /\ ret.kind = "ok"
           /\ SumOfVotes(after, Len(after)) = SumOfVotes(before, Len(before)) + 1
           /\ IF TalliesOfBlock = {}
              THEN after = Append(before, [eth1_data |-> block.eth1_data, vote_count |-> 1])
              ELSE \E i \in TalliesOfBlock :
                    after = [before EXCEPT ![i].vote_count = before[i].vote_count + 1]

\* C16 witness: the vote went to a tally that is followed by another one.
C16_Witness ==
    /\ Returned("eth1_data")
    /\ \E i \in TalliesOfBlock :
            /\ i < Len(pre.eth1_data_votes)
            /\ state.eth1_data_votes[i].vote_count = pre.eth1_data_votes[i].vote_count + 1

NoDuplicateTallies(votes) ==
    \A i, j \in 1..Len(votes) : votes[i].eth1_data = votes[j].eth1_data => i = j

\* every tally of the first list is in the second, at its place and with
\* at least its count
TalliesKept(before, after) ==
    /\ Len(after) >= Len(before)
    /\ \A i \in 1..Len(before) :
            /\ after[i].eth1_data = before[i].eth1_data
            /\ after[i].vote_count >= before[i].vote_count

\* C17: from a state without two tallies of the same eth1_data, any
\* sequence of ProcessEth1Data calls leaves at most one tally per eth1_data,
\* and never removes a tally or lowers its count.
C17_Eth1TalliesUnique ==
    (Returned("eth1_data") /\ NoDuplicateTallies(pre.eth1_data_votes))
    => /\ NoDuplicateTallies(state.eth1_data_votes)
       /\ TalliesKept(pre.eth1_data_votes, state.eth1_data_votes)
       /\ prev.stage = "eth1_data"
            => TalliesKept(prev.pre.eth1_data_votes, state.eth1_data_votes)

\* C17 witness: three ProcessEth1Data calls in a row, on a state that began
\* without tallies, voted twice for one eth1_data and once for another.
C17_Witness ==
    /\ Returned("eth1_data") /\ prev.stage = "eth1_data" /\ calls = 3
    /\ Len(state.eth1_data_votes) = 2
    /\ SumOfVotes(state.eth1_data_votes, 2) = 3
    /\ block.eth1_data = prev.pre.eth1_data_votes[1].eth1_data

\* the stages that take a list of operations, the list of the last call and
\* the limit on its length
ListStages == {"proposer_slashings", "attester_slashings", "attestations", "deposits", "exits"}

OpListOfCall ==
    CASE stage = "proposer_slashings" -> block.body.proposer_slashings
      [] stage = "attester_slashings" -> block.body.attester_slashings
      [] stage = "attestations" -> block.body.attestations
      [] stage = "deposits" -> block.body.deposits
      [] stage = "exits" -> block.body.exits

OpLimitOfCall ==
    CASE stage = "proposer_slashings" -> MaxProposerSlashings
      [] stage = "attester_slashings" -> MaxAttesterSlashings
      [] stage = "attestations" -> MaxAttestations
      [] stage = "deposits" -> MaxDeposits
      [] stage = "exits" -> MaxExits

LimitErrors ==
    {"number of proposer slashings exceeds threshold",
     "number of attester slashings exceeds threshold",
     "number of attestations in block exceeds threshold",
     "number of deposits exceeds allowed threshold",
     "number of exits exceeds threshold"}

\* C18: for each of the five kinds of operation, a list longer than its
\* limit makes the stage fail before it looks at an item or writes to the
\* state, and a list within the limit is never rejected for its length.
C18_LimitEnforcement ==
    (pc = "returned" /\ stage \in ListStages)
    => IF Len(OpListOfCall) > OpLimitOfCall
       THEN /\ ret.kind = "err" /\ ret.code \in LimitErrors
            /\ ret.idx = NoItem
            /\ log = <<>>
            /\ state = pre
       ELSE ret.code \notin LimitErrors

\* C18 witness: a list of deposits one longer than the limit, whose items
\* would each have been accepted, was rejected.
C18_Witness ==
    /\ Returned("deposits")
    /\ Len(block.body.deposits) = MaxDeposits + 1
    /\ ret.kind = "err"
    /\ \A k \in 1..Len(block.body.deposits) :
            ProcessValidatorDepositsUnlimited(pre,
                [block EXCEPT !.body.deposits = <<block.body.deposits[k]>>]).ret.kind = "ok"

AdjacentPairOutOfOrder(indices) ==
    \E i \in 1..(Len(indices) - 1) : indices[i] >= indices[i + 1]

StrictlyIncreasing(indices) ==
    \A i, j \in 1..Len(indices) : i < j => indices[i] < indices[j]

\* the attester slashings of the block that the stage accepted: all of
\* them when it succeeded, those before the failing item otherwise
AcceptedAttesterSlashings ==
    {k \in 1..Len(block.body.attester_slashings) :
        ret.kind = "ok" \/ (ret.idx # NoItem /\ k <= ret.idx)}

\* C19: an attester slashing with an adjacent pair indices[i] >=
\* indices[i+1] in either of its slashable attestations is rejected, so the
\* validator indices of every accepted slashable attestation are strictly
\* increasing (and pairwise distinct).
C19_StrictlyAscendingIndices ==
    Returned("attester_slashings")
    => /\ \A k \in 1..Len(block.body.attester_slashings) :
            LET s == block.body.attester_slashings[k]
            IN  (AdjacentPairOutOfOrder(s.slashable_attestation_1.validator_indices)
                    \/ AdjacentPairOutOfOrder(s.slashable_attestation_2.validator_indices))
                => /\ ret.kind # "ok"
                   /\ ret.idx <= k - 1
                   /\ ret.idx = k - 1 => ret.kind = "err"
                   /\ \A n \in 1..Len(log) : log[n].item < k - 1
       /\ \A k \in AcceptedAttesterSlashings :
            /\ StrictlyIncreasing(
                    block.body.attester_slashings[k].slashable_attestation_1.validator_indices)
            /\ StrictlyIncreasing(
                    block.body.attester_slashings[k].slashable_attestation_2.validator_indices)

\* C19 witness: the second slashing of a block repeats an index, the first
\* was accepted and penalized, and the stage failed at the second.
C19_Witness ==
    /\ Returned("attester_slashings")
    /\ Len(block.body.attester_slashings) = 2
    /\ ~StrictlyIncreasing(
            block.body.attester_slashings[2].slashable_attestation_2.validator_indices)
    /\ ret.kind = "err" /\ ret.idx = 1
    /\ ret.code = "attestation 2: validator indices not in descending order"
    /\ PenalizedByCall # {}

SingleExit == Returned("exits") /\ Len(block.body.exits) = 1

\* C20: ProcessValidatorExits accepts an exit (of a validator of the
\* registry) exactly when validator.exit_epoch >
\* entry_exit_effect_epoch(current_epoch) and current_epoch >= exit.epoch
\* and, with signature verification on, its signature verifies; an accepted
\* exit invokes initiate_validator_exit for exit.validator_index, and an
\* exit failing one of the two epoch conditions aborts the stage with an
\* error.
C20_ExitAcceptance ==
    (SingleExit /\ InRange(block.body.exits[1].validator_index, pre.validator_registry))
    => LET exit == block.body.exits[1]
           validator == pre.validator_registry[exit.validator_index + 1]
           currentEpoch == pre.slot \div EpochLength
           notExiting == validator.exit_epoch > currentEpoch + 1 + EntryExitDelay
           notEarly == currentEpoch >= exit.epoch
           signed == verifySignatures => exit.signature_ok
       IN  /\ ret.kind = "ok" <=> (notExiting /\ notEarly /\ signed)
           /\ ret.kind = "ok"
                => log = <<[op |-> "initiate_exit", item |-> 0, index |-> exit.validator_index]>>
           /\ ~(notExiting /\ notEarly) => (ret.kind = "err" /\ log = <<>>)

\* C21: a valid proposer slashing (equal slots, equal shards, different
\* block roots) naming a proposer whose penalized_epoch is already <=
\* current_epoch is accepted and changes nothing: penalize_validator is not
\* invoked and the state is as before.
C21_AlreadyPenalizedProposer ==
    (SingleProposerSlashing
        /\ InRange(block.body.proposer_slashings[1].proposer_index, pre.validator_registry))
    => LET slashing == block.body.proposer_slashings[1]
           valid ==
                /\ slashing.proposal_data_1.slot = slashing.proposal_data_2.slot
                /\ slashing.proposal_data_1.shard = slashing.proposal_data_2.shard
                /\ slashing.proposal_data_1.block_root # slashing.proposal_data_2.block_root
       IN  (valid /\ ~NotYetPenalizedBefore(slashing.proposer_index))
            => /\ ret.kind = "ok"
               /\ log = <<>>
               /\ state = pre

\* the hashes of the exits saved so far
SavedHashes == {Hash(Marshal(exit)) : exit \in savedExits}

\* C22: once SaveExit(e) has returned without error, HasExit(hash(e)) is
\* true in every later state of the store, and HasExit(h) is false for every
\* h that is not the hash of an exit saved by a successful SaveExit.
C22_ExitStore ==
    /\ [](\A hash \in HashValues :
            HasExit(blockOperationsBucket, hash) <=> hash \in SavedHashes)
    /\ [](dbCall.op = "HasExit" => (dbCall.exists <=> dbCall.hash \in SavedHashes))
    /\ [][\A hash \in HashValues :
            HasExit(blockOperationsBucket, hash) => HasExit(blockOperationsBucket', hash)]_vars

\* C22 witness: with two exits saved, HasExit answered true for the hash of
\* one of them while the store holds nothing under some other hash.
C22_Witness ==
    /\ dbCall.op = "HasExit" /\ dbCall.exists /\ dbCall.hash \in SavedHashes
    /\ Cardinality(savedExits) = 2
    /\ \E hash \in HashValues : ~HasExit(blockOperationsBucket, hash)

\* the call that has just returned is the retry of a failed call of a list
\* stage, recorded in prev
Retried ==
    /\ pc = "returned"
    /\ stage \in ListStages
    /\ calls > 1
    /\ prev.stage = stage
    /\ prev.block = block
    /\ prev.ret.kind = "err"

\* C23: a stage that failed on a state and a block, invoked again by the
\* caller with the state it holds and the same block, fails again at the
\* same item with the same condition.
C23_RetryDeterminism == Retried => ret = prev.ret

\* the validators named by both index lists of an attester slashing
CommonValidators(slashing) ==
    Elements(slashing.slashable_attestation_1.validator_indices)
        \cap Elements(slashing.slashable_attestation_2.validator_indices)

\* the validators penalize_validator was invoked on for the items before
\* the k-th of the list
PenalizedByEarlierItems(k) ==
    {log[n].index : n \in {m \in 1..Len(log) : log[m].op = "penalize" /\ log[m].item < k - 1}}

\* the loop of the call has come to the k-th item of its list
ItemReached(k) == ret.kind = "ok" \/ (ret.idx # NoItem /\ ret.idx >= k - 1)

\* C24: the items of a slashing list are processed in received order and
\* see the penalizations of the items before them: an attester slashing
\* whose common validators were all penalized by earlier slashings of the
\* same block fails with the empty slashable set, and a proposer slashing
\* that repeats the proposer of an earlier one does not penalize again.
C24_EarlierPenalizationsObserved ==
    /\ (Returned("proposer_slashings") \/ Returned("attester_slashings"))
        => \A m, n \in 1..Len(log) : m < n => log[m].item <= log[n].item
    /\ Returned("attester_slashings")
        => \A k \in 2..Len(block.body.attester_slashings) :
            LET slashing == block.body.attester_slashings[k]
            IN  (/\ ItemReached(k)
                 /\ verifyAttesterSlashing(slashing, verifySignatures) = "nil"
                 /\ CommonValidators(slashing) # {}
                 /\ CommonValidators(slashing) \subseteq PenalizedByEarlierItems(k))
                => ret = RetErr("expected a non-empty list of slashable indices", k - 1)
    /\ Returned("proposer_slashings")
        => \A j, k \in 1..Len(block.body.proposer_slashings) :
            (/\ j < k
             /\ block.body.proposer_slashings[j].proposer_index
                    = block.body.proposer_slashings[k].proposer_index)
            => \A n \in 1..Len(log) : log[n].item # k - 1

\* C24 witness: the second attester slashing of a block failed because the
\* first had penalized the only validator the two of its lists share.
C24_Witness ==
    /\ Returned("attester_slashings")
    /\ Len(block.body.attester_slashings) = 2
    /\ verifyAttesterSlashing(block.body.attester_slashings[2], verifySignatures) = "nil"
    /\ CommonValidators(block.body.attester_slashings[2]) # {}
    /\ CommonValidators(block.body.attester_slashings[2]) \subseteq PenalizedByEarlierItems(2)
    /\ ret = RetErr("expected a non-empty list of slashable indices", 1)
    /\ calls = 1

\* the DepositInput of a deposit decodes
DepositDecodes(deposit) == DecodeDepositInput(deposit.deposit_data).err = "nil"

\* the Merkle branch of a deposit leads from the hash of its data to root
DepositProven(deposit, root) ==
    VerifyMerkleBranch(Hash(deposit.deposit_data), deposit.merkle_branch,
                       DepositContractTreeDepth, deposit.merkle_tree_index, ToBytes32(root))

\* C25: deposits are handled in input order; process_deposit is invoked for
\* a deposit only once its DepositInput has decoded and its Merkle branch
\* has been verified against state.latest_eth1_data.deposit_root; a deposit
\* that fails either check is not applied and neither is any later one; and
\* each invocation of process_deposit receives the state the one before it
\* returned.
C25_DepositsInOrder ==
    Returned("deposits")
    => LET deposits == block.body.deposits
       IN  /\ Len(log) <= Len(deposits)
           /\ \A n \in 1..Len(log) :
                /\ log[n].op = "process_deposit"
                /\ log[n].item = n - 1
                /\ DepositDecodes(deposits[n])
                /\ DepositProven(deposits[n], log[n].received.latest_eth1_data.deposit_root)
                /\ log[n].received = IF n = 1 THEN pre ELSE log[n - 1].returned
                /\ n < Len(log) => log[n].err = "nil"
           /\ \A k \in 1..Len(deposits) :
                (~DepositDecodes(deposits[k])
                    \/ ~DepositProven(deposits[k], pre.latest_eth1_data.deposit_root))
                => Len(log) < k
           /\ ret.kind = "ok"
                => /\ Len(log) = Len(deposits)
                   /\ state = IF log = <<>> THEN pre ELSE log[Len(log)].returned

\* C25 witness: the second deposit of a block was applied to the state the
\* first had changed.
C25_Witness ==
    /\ Returned("deposits")
    /\ Len(block.body.deposits) = 2
    /\ Len(log) = 2
    /\ log[2].received = log[1].returned
    /\ log[2].received # pre
    /\ calls = 1

\* the validators penalize_validator was invoked on for the k-th item, in
\* the order of the invocations
RECURSIVE PenalizedForItem(_, _)
PenalizedForItem(k, n) ==
    IF n > Len(log) THEN <<>>
    ELSE IF log[n].op = "penalize" /\ log[n].item = k - 1
        THEN <<log[n].index>> \o PenalizedForItem(k, n + 1)
    ELSE PenalizedForItem(k, n + 1)

NoDuplicate(seq) == \A m, n \in 1..Len(seq) : m # n => seq[m] # seq[n]

\* C26: within one attester slashing penalize_validator is invoked at most
\* once per validator: the slashable indices, built by a nested scan of two
\* lists that were verified strictly ascending, hold no index twice.
C26_PenalizedOncePerSlashing ==
    Returned("attester_slashings")
    => \A k \in 1..Len(block.body.attester_slashings) :
        /\ NoDuplicate(PenalizedForItem(k, 1))
        /\ PenalizedForItem(k, 1) # <<>>
            => /\ StrictlyIncreasing(block.body.attester_slashings[k]
                                        .slashable_attestation_1.validator_indices)
               /\ StrictlyIncreasing(block.body.attester_slashings[k]
                                        .slashable_attestation_2.validator_indices)
               /\ Elements(PenalizedForItem(k, 1))
                    \subseteq CommonValidators(block.body.attester_slashings[k])

\* C26 witness: one attester slashing whose two lists share two validators
\* penalized both, each once.
C26_Witness ==
    /\ SingleAttesterSlashing
    /\ calls = 1
    /\ ret.kind = "ok"
    /\ Len(PenalizedForItem(1, 1)) = 2
    /\ Cardinality(CommonValidators(block.body.attester_slashings[1])) = 2

====
